---- MODULE Spec2Model ----
(***************************************************************************)
(* Orchestration engine of agent-runner: one Run record, the run manager   *)
(* operations (startRun, stopRun, pauseRun, resumeRun), the execution      *)
(* pipeline (executePipeline with its judge queue) and the worker adapter  *)
(* (spawnWorker, killWorker).                                              *)
(*                                                                         *)
(* Granularity: one action is one turn of the JavaScript event loop, i.e.  *)
(* the code that runs from the arrival of an external event (an HTTP       *)
(* request, the answer of a model call, a timer) until every continuation  *)
(* it made runnable has reached its next await on an external event.       *)
(* Identifiers made by nanoid are modelled by the position of the record   *)
(* in its list (tasks, workers, judgements), which is unique as nanoid's.  *)
(***************************************************************************)
EXTENDS Integers, Sequences, FiniteSets, TLC

\* ---- bounds of the model ----
MaxTasks == 3      \* tasks ever held by run.tasks
MaxSpawns == 3     \* workers ever held by run.workers
MaxPipes == 2      \* executePipeline invocations (first start plus resumes)
MaxClock == 3
MaxEmits == 3
MaxClients == 2      \* values taken by Date.now()

\* ---- program constants ----
MAX_CONCURRENT_WORKERS == 10
DefaultMaxWorkers == 3
DefaultJudgePriority == 5

VARIABLES
  status,        \* run.status
  analysis,      \* run.analysis
  tasks,         \* run.tasks
  judgements,    \* run.judgements
  workers,       \* run.workers
  maxWorkers,    \* run.maxWorkers
  completedAt,   \* run.completedAt (0: undefined)
  error,         \* run.error is set
  runAborts,     \* runAborts.get(run.id): 0, or the pipeline that owns the controller
  activeWorkers, \* keys of the activeWorkers table of the worker adapter
  pipes,         \* one record per executePipeline invocation (its closure)
  winst,         \* per worker: the state of its `done` promise and abort controller
  interrupted,   \* history: pauseRun or stopRun has been called on the run
  finished,      \* history: task ids in the order their workers terminated
  rolledBack,    \* history: tasks rolled back by pauseRun/stopRun and not started since
  now,           \* Date.now()
  thrown,        \* the error of the last Run Manager call that threw ("" if none did)
  lifecycle,     \* history: the run:completed and run:failed events emitted for the run
  memRun,        \* persistence: a Run held in `runs`, with its workers' logs and activity
  savedFiles,    \* persistence: the JSON files of the saved/ directory
  loadedRuns,    \* persistence: the runs that loadState put in `runs` at startup
  savedRun,      \* history: the Run as it was when saveRun last wrote its file
  eventLog,      \* event bus: EventBus.eventLog, each event named by its rank of emission
  clients,       \* event bus: the ids in EventBus.clients
  received,      \* event bus: per client ever added, the payloads written to its response
  emitted,       \* history: the number of emit calls so far
  regAt,         \* history: per client, the number of emit calls before it was added
  recent,        \* event bus: what the last getRecentEvents call returned
  limitAsked     \* event bus: the limit of that call (-1: no call yet)

\* The Run record, the tables of the run manager and of the worker adapter, the closures.
runVars == <<status, analysis, tasks, judgements, workers, maxWorkers, completedAt, error,
             runAborts, activeWorkers, pipes, winst, interrupted, finished, rolledBack, now,
             lifecycle>>

persistVars == <<memRun, savedFiles, loadedRuns, savedRun>>

busVars == <<eventLog, clients, received, emitted, regAt>>

queryVars == <<recent, limitAsked>>

vars == <<runVars, thrown, persistVars, busVars, queryVars>>

\* The mutable state as one record, so that the statements of a handler compose.
Cur ==
  [status |-> status, analysis |-> analysis, tasks |-> tasks, judgements |-> judgements,
   workers |-> workers, maxWorkers |-> maxWorkers, completedAt |-> completedAt,
   error |-> error, runAborts |-> runAborts, activeWorkers |-> activeWorkers,
   pipes |-> pipes, winst |-> winst, interrupted |-> interrupted, finished |-> finished,
   rolledBack |-> rolledBack, now |-> now, thrown |-> thrown, lifecycle |-> lifecycle]

\* The handler's result n becomes the next state (n is evaluated once); a step that would
\* exceed a bound of the model is not taken.
Becomes(s) ==
  \E n \in {s} :
    /\ Len(n.tasks) <= MaxTasks
    /\ Len(n.workers) <= MaxSpawns
    /\ Len(n.pipes) <= MaxPipes
    /\ status' = n.status
    /\ analysis' = n.analysis
    /\ tasks' = n.tasks
    /\ judgements' = n.judgements
    /\ workers' = n.workers
    /\ maxWorkers' = n.maxWorkers
    /\ completedAt' = n.completedAt
    /\ error' = n.error
    /\ runAborts' = n.runAborts
    /\ activeWorkers' = n.activeWorkers
    /\ pipes' = n.pipes
    /\ winst' = n.winst
    /\ interrupted' = n.interrupted
    /\ finished' = n.finished
    /\ rolledBack' = n.rolledBack
    /\ now' = n.now
    /\ thrown' = n.thrown
    /\ lifecycle' = n.lifecycle
    /\ UNCHANGED <<persistVars, busVars, queryVars>>

\* ---- small helpers ----
TaskIds(s) == 1..Len(s.tasks)
WorkerIds(s) == 1..Len(s.workers)
Min(a, b) == IF a <= b THEN a ELSE b

\* String.prototype.toLowerCase on the titles the model uses.
ToLowerCase(x) ==
  CASE x = "A" -> "a"
    [] x = "B" -> "b"
    [] x = "C" -> "c"
    [] x = "D" -> "d"
    [] OTHER -> x

\* Array.prototype.find over run.tasks by title, case-insensitive: the first match, 0 if none.
FindByTitle(ts, ids, depTitle) ==
  LET m == {i \in ids : ToLowerCase(ts[i].title) = ToLowerCase(depTitle)}
  IN IF m = {} THEN 0 ELSE CHOOSE i \in m : \A j \in m : i <= j

\* Mutant of ResolveDeps: without .filter(Boolean), a title that matches nothing is kept.
ResolveDepsUnfiltered(ts, ids, depTitles) ==
  {FindByTitle(ts, ids, d) : d \in depTitles}

\* depTitles.map(find).filter(Boolean): ids of the titles that resolve.
ResolveDeps(ts, ids, depTitles) ==
  {FindByTitle(ts, ids, d) : d \in depTitles} \ {0}

\* createRun: maxWorkers: Math.min(maxWorkers || 3, MAX_CONCURRENT_WORKERS); 0 stands for an
\* absent (or zero) argument, both falsy.
ClampMaxWorkers(arg) == Min(IF arg = 0 THEN DefaultMaxWorkers ELSE arg, MAX_CONCURRENT_WORKERS)

\* ---- worker adapter (worker.ts) ----

\* spawnWorker: a Worker record born `running`, registered in activeWorkers, whose `done`
\* promise is pending; p is the pipeline whose continuation is registered on `done`.
spawnWorker(s, p, t) ==
  LET w == Len(s.workers) + 1
  IN [s EXCEPT !.workers = Append(@, [status |-> "running", taskId |-> t, completedAt |-> FALSE]),
               !.activeWorkers = @ \cup {w},
               !.winst = Append(@, [alive |-> TRUE, cancelled |-> FALSE, owner |-> p])]

\* killWorker: a no-op for an id that is not in the table; else abort and delete.
killWorker(s, w) ==
  IF w \notin s.activeWorkers THEN s
  ELSE [s EXCEPT !.winst[w].cancelled = TRUE, !.activeWorkers = @ \ {w}]

getRunningWorkerIds(s) == {w \in WorkerIds(s) : s.workers[w].status = "running"}

RECURSIVE killWorkers(_, _)
killWorkers(s, ids) ==
  IF ids = {} THEN s
  ELSE LET w == CHOOSE x \in ids : TRUE
       IN killWorkers(killWorker(s, w), ids \ {w})

\* ---- pipeline (executePipeline) ----

NewPipe == [pc |-> "init", aborted |-> FALSE, runningTasks |-> <<>>, judgeQueue |-> <<>>,
            judging |-> FALSE, judgeTask |-> 0]

RunningSize(s, p) == Cardinality(DOMAIN s.pipes[p].runningTasks)

\* Mutant of IsReady: the dependencies are not looked at.
IsReadyIgnoringDependencies(s, t) == s.tasks[t].status = "pending"

IsReady(s, t) ==
  /\ s.tasks[t].status = "pending"
  /\ \A d \in s.tasks[t].dependencies : d \in TaskIds(s) /\ s.tasks[d].status = "completed"

\* getReadyTasks: run.tasks.filter(...), so in the order of run.tasks.
getReadyTasks(s) ==
  SelectSeq([i \in 1..Len(s.tasks) |-> i], LAMBDA t : IsReady(s, t))

\* The body of the spawn loop for one ready task.
StartTask(s, p, t) ==
  LET s1 == [s EXCEPT !.tasks[t].status = "in_progress", !.tasks[t].startedAt = TRUE,
                      !.rolledBack = @ \ {t}]
      s2 == spawnWorker(s1, p, t)
  IN [s2 EXCEPT !.pipes[p].runningTasks = (t :> Len(s2.workers)) @@ @]

\* for (const task of readyTasks) { if (runningTasks.size >= run.maxWorkers) break; ... }
RECURSIVE SpawnLoop(_, _, _)
SpawnLoop(s, p, ready) ==
  IF ready = <<>> \/ RunningSize(s, p) >= s.maxWorkers \/ s.pipes[p].aborted THEN s
  ELSE SpawnLoop(StartTask(s, p, Head(ready)), p, Tail(ready))

TrulyBlocked(s) ==
  {t \in TaskIds(s) :
     /\ s.tasks[t].status = "pending"
     /\ \E d \in s.tasks[t].dependencies :
          d \in TaskIds(s) /\ s.tasks[d].status \in {"failed", "cancelled"}}

CancelBlocked(s) ==
  LET b == TrulyBlocked(s)
  IN [s EXCEPT !.tasks = [t \in DOMAIN s.tasks |->
        IF t \in b
        THEN [s.tasks[t] EXCEPT !.status = "cancelled",
                                !.error = "Blocked by failed dependencies"]
        ELSE s.tasks[t]]]

PendingLeft(s) == {t \in TaskIds(s) : s.tasks[t].status = "pending"}

Settled(s, w) == ~s.winst[w].alive

\* After Promise.race: delete the entries whose task is completed or failed.
Cleanup(s, p) ==
  LET rt == s.pipes[p].runningTasks
      keep == {t \in DOMAIN rt : s.tasks[t].status \notin {"completed", "failed"}}
  IN [s EXCEPT !.pipes[p].runningTasks = [t \in keep |-> rt[t]]]

\* startRun's finally, reached when executePipeline returns or throws.
Return(s, p) == [s EXCEPT !.runAborts = 0, !.pipes[p].pc = "done"]

\* "Final status if not already set".
FinalStatus(s) ==
  IF s.status \notin {"completed", "failed", "stopped", "paused"}
  THEN [s EXCEPT !.status = "completed", !.completedAt = s.now,
                 !.lifecycle = @ \cup {"run:completed"}]
  ELSE s

\* while (judging || judgeQueue.length > 0) await sleep(500)
DrainWait(s, p) ==
  IF s.pipes[p].judging \/ s.pipes[p].judgeQueue # <<>>
  THEN [s EXCEPT !.pipes[p].pc = "drain"]
  ELSE Return(FinalStatus(s), p)

\* if (runningTasks.size > 0) await Promise.allSettled(...)
Finalize(s, p) ==
  LET rt == s.pipes[p].runningTasks
  IN IF \E t \in DOMAIN rt : ~Settled(s, rt[t])
     THEN [s EXCEPT !.pipes[p].pc = "settle"]
     ELSE DrainWait(s, p)

\* One pass of the main loop from `while (true)` to its next wait on an external event.
RECURSIVE LoopTop(_, _)
LoopTop(s, p) ==
  IF s.pipes[p].aborted \/ s.status = "completed" THEN Finalize(s, p)
  ELSE
    LET s1 == SpawnLoop(s, p, getReadyTasks(s))
        deadEnd == RunningSize(s1, p) = 0 /\ getReadyTasks(s1) = <<>>
        s2 == IF deadEnd THEN CancelBlocked(s1) ELSE s1
        quiescent == /\ deadEnd
                     /\ ~s2.pipes[p].judging
                     /\ s2.pipes[p].judgeQueue = <<>>
                     /\ PendingLeft(s2) = {}
        rt == s2.pipes[p].runningTasks
    IN IF quiescent THEN Finalize(s2, p)
       ELSE IF RunningSize(s2, p) > 0
            THEN IF \E t \in DOMAIN rt : Settled(s2, rt[t])
                 THEN LoopTop(Cleanup(s2, p), p)
                 ELSE [s2 EXCEPT !.pipes[p].pc = "race"]
            ELSE [s2 EXCEPT !.pipes[p].pc = "sleep"]

\* ---- judge queue (processJudgeQueue) ----

\* Mutant of JudgeLoop: the queue is served from its back (pop instead of shift).
JudgeLoopFromBack(s, p) ==
  LET q == s.pipes[p].judgeQueue
  IN IF q # <<>> /\ ~s.pipes[p].aborted
     THEN [s EXCEPT !.pipes[p].judgeQueue = SubSeq(q, 1, Len(q) - 1),
                    !.pipes[p].judgeTask = q[Len(q)],
                    !.status = "judging"]
     ELSE [s EXCEPT !.pipes[p].judging = FALSE, !.pipes[p].judgeTask = 0]

\* The while loop of processJudgeQueue up to its next await: either a judge call is now in
\* flight for the task shifted from the queue, or the loop has ended and `judging` is false.
JudgeLoop(s, p) ==
  LET q == s.pipes[p].judgeQueue
  IN IF q # <<>> /\ ~s.pipes[p].aborted
     THEN [s EXCEPT !.pipes[p].judgeQueue = Tail(q),
                    !.pipes[p].judgeTask = Head(q),
                    !.status = "judging"]
     ELSE [s EXCEPT !.pipes[p].judging = FALSE, !.pipes[p].judgeTask = 0]

\* processJudgeQueue as called by a worker's continuation.
processJudgeQueue(s, p) ==
  IF s.pipes[p].judging THEN s
  ELSE JudgeLoop([s EXCEPT !.pipes[p].judging = TRUE], p)

\* The new tasks of one judge result, appended one by one; each resolves its dependency
\* titles against run.tasks as it is at that moment.
RECURSIVE AddNewTasks(_, _, _)
AddNewTasks(ts, nts, jid) ==
  IF nts = <<>> THEN ts
  ELSE LET nt == Head(nts)
           newTask == [title |-> nt.title, status |-> "pending",
                       priority |-> IF nt.priority = 0 THEN DefaultJudgePriority ELSE nt.priority,
                       dependencies |-> ResolveDeps(ts, 1..Len(ts), nt.dependencies),
                       startedAt |-> FALSE, result |-> FALSE, error |-> "",
                       spawnedBy |-> jid]
       IN AddNewTasks(Append(ts, newTask), Tail(nts), jid)

\* Mutant of CancelPending: the tasks added by a judge are left pending.
CancelPendingPlanned(s) ==
  [s EXCEPT !.tasks = [t \in DOMAIN s.tasks |->
     IF s.tasks[t].status = "pending" /\ s.tasks[t].spawnedBy = 0
     THEN [s.tasks[t] EXCEPT !.status = "cancelled"]
     ELSE s.tasks[t]]]

CancelPending(s) ==
  [s EXCEPT !.tasks = [t \in DOMAIN s.tasks |->
     IF s.tasks[t].status = "pending" THEN [s.tasks[t] EXCEPT !.status = "cancelled"]
     ELSE s.tasks[t]]]

\* Mutant of AfterJudge: the status is set back to `executing` whatever it is.
AfterJudgeAlwaysReverts(s, p) == JudgeLoop([s EXCEPT !.status = "executing"], p)

\* "Back to executing after judging", then the next iteration of the while loop.
AfterJudge(s, p) ==
  JudgeLoop(IF s.status = "judging" THEN [s EXCEPT !.status = "executing"] ELSE s, p)

\* Mutant of JudgeOk: the new tasks carry another identifier than the Judgement gets.
JudgeOkOtherSpawnId(s, p, res) ==
  LET t == s.pipes[p].judgeTask
      jid == Len(s.judgements) + 1
      n0 == Len(s.tasks)
      ts == AddNewTasks(s.tasks, res.newTasks, jid + 1)
      j == [id |-> jid, taskId |-> t, newTaskIds |-> [i \in 1..(Len(ts) - n0) |-> n0 + i],
            goalComplete |-> res.goalComplete, failed |-> FALSE]
      s1 == [s EXCEPT !.tasks = ts, !.judgements = Append(@, j)]
      s2 == CancelPending(s1)
      stillRunning == \E x \in TaskIds(s2) : s2.tasks[x].status = "in_progress"
  IN IF ~res.goalComplete THEN AfterJudge(s1, p)
     ELSE IF ~stillRunning
          THEN [s2 EXCEPT !.status = "completed", !.completedAt = s.now,
                          !.lifecycle = @ \cup {"run:completed"},
                          !.pipes[p].judging = FALSE, !.pipes[p].judgeTask = 0]
          ELSE AfterJudge(s2, p)

\* The continuation of `await judgeTaskCompletion(run, task)` when the call succeeded.
JudgeOk(s, p, res) ==
  LET t == s.pipes[p].judgeTask
      jid == Len(s.judgements) + 1
      n0 == Len(s.tasks)
      ts == AddNewTasks(s.tasks, res.newTasks, jid)
      j == [id |-> jid, taskId |-> t, newTaskIds |-> [i \in 1..(Len(ts) - n0) |-> n0 + i],
            goalComplete |-> res.goalComplete, failed |-> FALSE]
      s1 == [s EXCEPT !.tasks = ts, !.judgements = Append(@, j)]
      s2 == CancelPending(s1)
      stillRunning == \E x \in TaskIds(s2) : s2.tasks[x].status = "in_progress"
  IN IF ~res.goalComplete THEN AfterJudge(s1, p)
     ELSE IF ~stillRunning
          THEN [s2 EXCEPT !.status = "completed", !.completedAt = s.now,
                          !.lifecycle = @ \cup {"run:completed"},
                          !.pipes[p].judging = FALSE, !.pipes[p].judgeTask = 0]
          ELSE AfterJudge(s2, p)

\* Mutant of JudgeErr: the synthetic judgement is recorded but the loop is left there.
JudgeErrLeavesLoop(s, p) ==
  LET t == s.pipes[p].judgeTask
      j == [id |-> Len(s.judgements) + 1, taskId |-> t, newTaskIds |-> <<>>,
            goalComplete |-> FALSE, failed |-> TRUE]
  IN [s EXCEPT !.judgements = Append(@, j), !.pipes[p].judgeTask = 0]

\* The catch branch: a synthetic judgement, then the loop goes on.
JudgeErr(s, p) ==
  LET t == s.pipes[p].judgeTask
      j == [id |-> Len(s.judgements) + 1, taskId |-> t, newTaskIds |-> <<>>,
            goalComplete |-> FALSE, failed |-> TRUE]
  IN AfterJudge([s EXCEPT !.judgements = Append(@, j)], p)

\* ---- the continuation registered on a worker's `done` ----

\* The end of the `done` body of spawnWorker: the worker's and the task's terminal fields.
WorkerEnds(s, w, ok) ==
  LET t == s.workers[w].taskId
  IN IF ok
     THEN [s EXCEPT !.workers[w].status = "completed", !.workers[w].completedAt = TRUE,
                    !.tasks[t].result = TRUE, !.tasks[t].status = "completed",
                    !.winst[w].alive = FALSE, !.finished = Append(@, t)]
     ELSE [s EXCEPT !.workers[w].status = "failed", !.workers[w].completedAt = TRUE,
                    !.tasks[t].status = "failed",
                    !.tasks[t].error = IF s.winst[w].cancelled THEN "Aborted" ELSE "error",
                    !.winst[w].alive = FALSE, !.finished = Append(@, t)]

\* done.then(...): queue the task, kick the judge; then whoever awaits the promise resumes.
OnWorkerDone(s, w) ==
  LET p == s.winst[w].owner
      t == s.workers[w].taskId
      s1 == processJudgeQueue([s EXCEPT !.pipes[p].judgeQueue = Append(@, t)], p)
      rt == s1.pipes[p].runningTasks
      awaited == \E x \in DOMAIN rt : rt[x] = w
  IN IF s1.pipes[p].pc = "race" /\ awaited THEN LoopTop(Cleanup(s1, p), p)
     ELSE IF s1.pipes[p].pc = "settle" /\ \A x \in DOMAIN rt : Settled(s1, rt[x])
          THEN DrainWait(s1, p)
          ELSE s1

\* ---- planner (createInitialPlan) ----

\* Answers of the planning model: title, priority (0: absent) and dependency titles ("z" is
\* the title of no task).
PlanChoices ==
  { <<[title |-> "a", priority |-> 1, dependencies |-> {}]>>,
    <<[title |-> "a", priority |-> 1, dependencies |-> {}],
      [title |-> "b", priority |-> 2, dependencies |-> {"A", "z"}]>>,
    <<[title |-> "a", priority |-> 2, dependencies |-> {}],
      [title |-> "b", priority |-> 1, dependencies |-> {}]>>,
    <<[title |-> "a", priority |-> 2, dependencies |-> {}],
      [title |-> "b", priority |-> 1, dependencies |-> {}],
      [title |-> "c", priority |-> 0, dependencies |-> {}]>>,
    <<[title |-> "a", priority |-> 1, dependencies |-> {}],
      [title |-> "b", priority |-> 2, dependencies |-> {"A"}],
      [title |-> "c", priority |-> 3, dependencies |-> {"C"}]>> }

\* parsed.tasks.map(...) and the resolution of dependency titles within the fresh tasks;
\* n0 is the number of tasks the run already holds (the fresh ids follow them).
createInitialPlan(s, plan) ==
  LET n0 == Len(s.tasks)
      raw == [i \in 1..Len(plan) |->
                [title |-> plan[i].title, status |-> "pending",
                 priority |-> IF plan[i].priority = 0 THEN i ELSE plan[i].priority,
                 dependencies |-> {}, startedAt |-> FALSE, result |-> FALSE, error |-> "",
                 spawnedBy |-> 0]]
      all == s.tasks \o raw
      fresh == (n0 + 1)..(n0 + Len(plan))
  IN [i \in 1..Len(plan) |->
        [raw[i] EXCEPT !.dependencies = ResolveDeps(all, fresh, plan[i].dependencies)]]

\* Answers of the judging model.
JudgeChoices ==
  [goalComplete : BOOLEAN,
   newTasks : { <<>>, <<[title |-> "c", priority |-> 0, dependencies |-> {"a", "z"}]>> }]

\* ---- run manager (startRun, stopRun, pauseRun, resumeRun) and executePipeline's entry ----

\* "CONTINUOUS EXECUTION": status executing, then the main loop.
Execute(s, p) == LoopTop([s EXCEPT !.status = "executing"], p)

executePipeline(s, p) ==
  IF PendingLeft(s) = {}
  THEN [s EXCEPT !.status = "planning", !.pipes[p].pc = "planning"]
  ELSE Execute(s, p)

startRun(s) ==
  LET p == Len(s.pipes) + 1
  IN executePipeline([s EXCEPT !.pipes = Append(@, NewPipe), !.runAborts = p], p)

\* runAborts.get(runId)?.abort()
AbortRun(s) ==
  IF s.runAborts = 0 THEN s ELSE [s EXCEPT !.pipes[s.runAborts].aborted = TRUE]

InProgress(s) == {t \in TaskIds(s) : s.tasks[t].status = "in_progress"}

\* for (const task of run.tasks) if in_progress: pending, startedAt = undefined
Rollback(s) ==
  [s EXCEPT !.tasks = [t \in DOMAIN s.tasks |->
                 IF s.tasks[t].status = "in_progress"
                 THEN [s.tasks[t] EXCEPT !.status = "pending", !.startedAt = FALSE]
                 ELSE s.tasks[t]],
            !.rolledBack = @ \cup InProgress(s),
            !.interrupted = TRUE]

pauseRun(s) ==
  LET s1 == AbortRun([s EXCEPT !.status = "paused"])
      s2 == killWorkers(s1, getRunningWorkerIds(s1))
  IN Rollback(s2)

stopRun(s) ==
  LET s1 == AbortRun(s)
      s2 == killWorkers(s1, getRunningWorkerIds(s1))
      s3 == [s2 EXCEPT !.workers = [w \in DOMAIN s2.workers |->
                         IF s2.workers[w].status = "running"
                         THEN [s2.workers[w] EXCEPT !.status = "failed", !.completedAt = TRUE]
                         ELSE s2.workers[w]]]
      s4 == Rollback(s3)
  IN [s4 EXCEPT !.status = "stopped", !.completedAt = s.now]

resumeRun(s) ==
  startRun(IF s.status = "stopped"
           THEN [s EXCEPT !.status = "paused", !.completedAt = 0]
           ELSE s)

\* Mutant of PlanThrows: a failure that is not an abort is handled like an abort.
PlanThrowsAsStopped(s, p) ==
  LET s1 == IF s.status # "paused" THEN [s EXCEPT !.status = "stopped"] ELSE s
  IN Return(s1, p)

\* The catch and finally of startRun when executePipeline throws (the plan call failed).
PlanThrows(s, p) ==
  LET s1 == IF s.pipes[p].aborted
            THEN IF s.status # "paused" THEN [s EXCEPT !.status = "stopped"] ELSE s
            ELSE [s EXCEPT !.status = "failed", !.error = TRUE,
                           !.lifecycle = @ \cup {"run:failed"}]
  IN Return(s1, p)

\* ---- the Run Manager's calls with their precondition checks ----

\* The id under which createRun registered the run in `runs`; every other id is unknown.
RunId == 1
RequestIds == {1, 2}

Throw(s, msg) == [s EXCEPT !.thrown = msg]

startRunCall(s, id) ==
  IF id # RunId THEN Throw(s, "not found")
  ELSE IF s.status \notin {"idle", "paused"}
       THEN Throw(s, "can only start idle or paused runs")
       ELSE startRun(s)

stopRunCall(s, id) ==
  IF id # RunId THEN Throw(s, "not found") ELSE stopRun(s)

\* Mutant of pauseRunCall: the status of the run is not checked.
pauseRunCallUnchecked(s, id) ==
  IF id # RunId THEN Throw(s, "not found") ELSE pauseRun(s)

pauseRunCall(s, id) ==
  IF id # RunId THEN Throw(s, "not found")
  ELSE IF s.status \notin {"planning", "executing", "judging"}
       THEN Throw(s, "can only pause active runs")
       ELSE pauseRun(s)

resumeRunCall(s, id) ==
  IF id # RunId THEN Throw(s, "not found")
  ELSE IF s.status \notin {"paused", "stopped"}
       THEN Throw(s, "can only resume paused or stopped runs")
       ELSE resumeRun(s)

\* ---- initial state: the run as createRun leaves it ----

MaxWorkersArgs == {1, 2}

\* createRun(goal, targetDir, arg); 0 stands for an absent argument.
RunCreated(arg) ==
  /\ status = "idle"
  /\ analysis = ""
  /\ tasks = <<>>
  /\ judgements = <<>>
  /\ workers = <<>>
  /\ maxWorkers = ClampMaxWorkers(arg)
  /\ completedAt = 0
  /\ error = FALSE
  /\ runAborts = 0
  /\ activeWorkers = {}
  /\ pipes = <<>>
  /\ winst = <<>>
  /\ interrupted = FALSE
  /\ finished = <<>>
  /\ rolledBack = {}
  /\ now = 1
  /\ thrown = ""
  /\ lifecycle = {}

\* Nothing saved, nothing loaded; the persisted view of the run as createRun made it.
NoFiles ==
  /\ memRun = [status |-> "idle", completedAt |-> 0, tasks |-> <<>>, workers |-> <<>>]
  /\ savedFiles = <<>>
  /\ loadedRuns = <<>>
  /\ savedRun = <<>>

\* new EventBus(): no client, an empty log.
NoEvents ==
  /\ eventLog = <<>>
  /\ clients = {}
  /\ received = <<>>
  /\ emitted = 0
  /\ regAt = <<>>
  /\ recent = <<>>
  /\ limitAsked = -1

Init == NoFiles /\ NoEvents /\ \E arg \in MaxWorkersArgs : RunCreated(arg)

\* ---- actions: one per event-loop turn ----

StartRun ==
  /\ status \in {"idle", "paused"}
  /\ Becomes(startRun(Cur))

ResumeRun ==
  /\ status \in {"paused", "stopped"}
  /\ Becomes(resumeRun(Cur))

PauseRun ==
  /\ status \in {"planning", "executing", "judging"}
  /\ Becomes(pauseRun(Cur))

StopRun ==
  /\ Becomes(stopRun(Cur))

\* The planning model answers.
PlanReturn(p) ==
  /\ pipes[p].pc = "planning"
  /\ \E plan \in PlanChoices :
       Becomes(Execute([Cur EXCEPT !.analysis = "A",
                                   !.tasks = @ \o createInitialPlan(Cur, plan)], p))

\* The planning call fails.
PlanFail(p) ==
  /\ pipes[p].pc = "planning"
  /\ Becomes(PlanThrows(Cur, p))

\* A worker's agent loop returns or throws. A cancelled one throws "Aborted" when its model
\* call is aborted; it still returns when the abort arrives while the tools of its last step
\* run, since no tool observes the signal and no model call follows.
WorkerDone(w) ==
  /\ winst[w].alive
  /\ \E ok \in BOOLEAN : Becomes(OnWorkerDone(WorkerEnds(Cur, w, ok), w))

\* The judging model answers.
JudgeReturn(p) ==
  /\ pipes[p].judgeTask # 0
  /\ \E res \in JudgeChoices : Becomes(JudgeOk(Cur, p, res))

\* The judging call fails.
JudgeFail(p) ==
  /\ pipes[p].judgeTask # 0
  /\ Becomes(JudgeErr(Cur, p))

\* The 1 s timer of the main loop fires.
SleepWake(p) ==
  /\ pipes[p].pc = "sleep"
  /\ Becomes(LoopTop(Cur, p))

\* The 500 ms timer of the finalization fires.
DrainPoll(p) ==
  /\ pipes[p].pc = "drain"
  /\ Becomes(DrainWait(Cur, p))

\* Time passes: Date.now() returns a later value.
Tick ==
  /\ now < MaxClock
  /\ Becomes([Cur EXCEPT !.now = @ + 1])

\* The calls as a client may make them: any id, any state of the run.
StartRunCall(id) == Becomes(startRunCall(Cur, id))
StopRunCall(id) == Becomes(stopRunCall(Cur, id))
PauseRunCall(id) == Becomes(pauseRunCall(Cur, id))
ResumeRunCall(id) == Becomes(resumeRunCall(Cur, id))

Next ==
  \/ StartRun
  \/ ResumeRun
  \/ PauseRun
  \/ StopRun
  \/ \E p \in DOMAIN pipes : PlanReturn(p)
  \/ \E p \in DOMAIN pipes : PlanFail(p)
  \/ \E w \in DOMAIN winst : WorkerDone(w)
  \/ \E p \in DOMAIN pipes : JudgeReturn(p)
  \/ \E p \in DOMAIN pipes : JudgeFail(p)
  \/ \E p \in DOMAIN pipes : SleepWake(p)
  \/ \E p \in DOMAIN pipes : DrainPoll(p)

Spec == Init /\ [][Next]_vars

\* An uninterrupted run: started once, never paused, stopped or resumed.
NextRun ==
  \/ status = "idle" /\ StartRun
  \/ \E p \in DOMAIN pipes : PlanReturn(p)
  \/ \E p \in DOMAIN pipes : PlanFail(p)
  \/ \E w \in DOMAIN winst : WorkerDone(w)
  \/ \E p \in DOMAIN pipes : JudgeReturn(p)
  \/ \E p \in DOMAIN pipes : JudgeFail(p)
  \/ \E p \in DOMAIN pipes : SleepWake(p)
  \/ \E p \in DOMAIN pipes : DrainPoll(p)

UninterruptedSpec == Init /\ [][NextRun]_vars

\* One pipeline that pauseRun or stopRun may abort, never resumed; every pending external
\* event (a worker's termination, a model call's answer, a timer) eventually arrives.
NextAbort ==
  \/ status = "idle" /\ StartRun
  \/ PauseRun
  \/ StopRun
  \/ \E p \in DOMAIN pipes : PlanReturn(p)
  \/ \E p \in DOMAIN pipes : PlanFail(p)
  \/ \E w \in DOMAIN winst : WorkerDone(w)
  \/ \E p \in DOMAIN pipes : JudgeReturn(p)
  \/ \E p \in DOMAIN pipes : JudgeFail(p)
  \/ \E p \in DOMAIN pipes : SleepWake(p)
  \/ \E p \in DOMAIN pipes : DrainPoll(p)

EventsArrive ==
  /\ WF_vars(\E w \in DOMAIN winst : WorkerDone(w))
  /\ WF_vars(\E p \in DOMAIN pipes : PlanReturn(p) \/ PlanFail(p))
  /\ WF_vars(\E p \in DOMAIN pipes : JudgeReturn(p) \/ JudgeFail(p))
  /\ WF_vars(\E p \in DOMAIN pipes : SleepWake(p))
  /\ WF_vars(\E p \in DOMAIN pipes : DrainPoll(p))

FairAbortSpec == Init /\ [][NextAbort]_vars /\ EventsArrive

\* ---- properties ----

RunningWorkers == {w \in DOMAIN workers : workers[w].status = "running"}
RunningWorkersOf(t) == {w \in RunningWorkers : workers[w].taskId = t}

\* C1: in every reachable state the number of workers of the run whose status is `running`
\* is at most run.maxWorkers, whatever start, pause, stop and resume calls were made.
C1_RunningWithinMaxWorkers == Cardinality(RunningWorkers) <= maxWorkers

\* C2: in every reachable state each task with status `in_progress` has exactly one worker
\* with status `running` whose taskId is that task.
C2_InProgressHasOneRunningWorker ==
  \A t \in DOMAIN tasks :
    tasks[t].status = "in_progress" => Cardinality(RunningWorkersOf(t)) = 1

\* C3: a task rolled back by pauseRun or stopRun is `pending` with startedAt cleared, and
\* stays so until a pipeline started by a later resume starts it again.
C3_RolledBackStaysPending ==
  \A t \in rolledBack : tasks[t].status = "pending" /\ ~tasks[t].startedAt

\* C4: once the run is `paused` it stays `paused`, and once it is `stopped` it stays `stopped`
\* with completedAt set, until stopRun or a resume (a new executePipeline invocation) acts;
\* no step of an aborted pipeline, planner call or judge call changes the status.
C4_PausedOrStoppedIsKept ==
  [][/\ status = "paused" =>
          \/ status' \in {"paused", "stopped"}
          \/ Len(pipes') # Len(pipes)
     /\ status = "stopped" =>
          \/ status' = "stopped" /\ completedAt' # 0
          \/ Len(pipes') # Len(pipes)]_vars

\* C5: when the planner call of a pipeline that pauseRun aborted during `planning` ends, its
\* result is not applied: the run stays `paused`, with the tasks and the analysis it had.
C5_PausedPlanIsDropped ==
  [][\A p \in DOMAIN pipes :
       (/\ pipes[p].pc = "planning" /\ pipes[p].aborted /\ status = "paused"
        /\ pipes'[p].pc # "planning")
       => (status' = "paused" /\ tasks' = tasks /\ analysis' = analysis)]_vars

\* Workers of pipeline p that pauseRun or stopRun cancelled.
CancelledWorkersOf(p) == {w \in DOMAIN winst : winst[w].owner = p /\ winst[w].cancelled}

\* C6: once the abort handle of a pipeline has been fired while it had a running worker,
\* and every cancelled worker terminates, that executePipeline invocation returns.
C6_AbortedPipelineReturns ==
  (pipes # <<>> /\ pipes[1].aborted /\ CancelledWorkersOf(1) # {})
    ~> (pipes # <<>> /\ pipes[1].pc = "done")

JudgedTasks == {judgements[i].taskId : i \in DOMAIN judgements}
FinishedTasks == {finished[i] : i \in DOMAIN finished}

\* C7: in a run that is never paused or stopped, the run is `completed` only after every
\* task whose worker has terminated has got its Judgement.
C7_CompletedOnlyAfterAllJudged ==
  (~interrupted /\ status = "completed") => FinishedTasks \subseteq JudgedTasks

\* C8: at most one judge call (judgeTaskCompletion) of the run is in flight at any time.
JudgeCallsInFlight == {p \in DOMAIN pipes : pipes[p].judgeTask # 0}
C8_OneJudgeCallInFlight == Cardinality(JudgeCallsInFlight) <= 1

\* C9: in an uninterrupted run the judgements are appended in the order in which the
\* workers terminated: if A's worker finished before B's and B has a Judgement, then A has a
\* Judgement that was appended before it.
C9_JudgementsInCompletionOrder ==
  \A a, b \in DOMAIN finished :
    a < b =>
      \A j \in DOMAIN judgements :
        judgements[j].taskId = finished[b] =>
          \E i \in 1..(j - 1) : judgements[i].taskId = finished[a]

\* Three tasks whose workers ended in the order 2, 3, 1 (two of them while another task was
\* being judged) have been judged in that order.
C9_Witness ==
  /\ finished = <<2, 3, 1>>
  /\ Len(judgements) = 3
  /\ judgements[1].taskId = 2 /\ judgements[2].taskId = 3 /\ judgements[3].taskId = 1

\* C10: a task enters `in_progress` only while every task named in its dependencies has
\* status `completed`. A step is one event-loop turn, in which a dependency's worker may end
\* and the scheduler then start the dependent task; nothing in a turn changes a task after
\* the spawn loop except cancelling pending ones, so the statuses at the moment of the start
\* are those at the end of the step.
C10_StartedOnlyWithDependenciesCompleted ==
  [][\A t \in DOMAIN tasks' :
       (/\ tasks'[t].status = "in_progress"
        /\ (t \in DOMAIN tasks => tasks[t].status # "in_progress"))
         => \A d \in tasks'[t].dependencies :
              d \in DOMAIN tasks' /\ tasks'[d].status = "completed"]_vars

\* A task with a dependency is running, after its dependency completed.
C10_Witness ==
  \E t \in DOMAIN tasks :
    /\ tasks[t].status = "in_progress"
    /\ tasks[t].dependencies # {}
    /\ \A d \in tasks[t].dependencies : tasks[d].status = "completed"

\* An uninterrupted run in which every pending external event eventually arrives.
FairRunSpec == Init /\ [][NextRun]_vars /\ EventsArrive

TerminalRun == status \in {"completed", "failed"}

\* C11: when the planner, every worker and every judge call return, an uninterrupted run
\* that has been started eventually reaches a terminal status, whatever task graph the
\* planner or a judge produced (a task may depend on itself): the main loop does not poll
\* forever with pending tasks that can never become ready.
C11_UninterruptedRunTerminates == (status = "planning") ~> TerminalRun

\* The step records a Judgement whose goalComplete is true.
GoalCompleteRecorded ==
  /\ Len(judgements') = Len(judgements) + 1
  /\ judgements'[Len(judgements')].goalComplete

\* C12: right after a Judgement with goalComplete = true is recorded no task is `pending`
\* (the tasks spawned by that same judge result included: they are `cancelled`), and a
\* `cancelled` task is never started.
C12_GoalCompleteCancelsPending ==
  [][/\ GoalCompleteRecorded =>
          /\ \A t \in DOMAIN tasks' : tasks'[t].status # "pending"
          /\ \A t \in DOMAIN tasks' :
               t \notin DOMAIN tasks \/ tasks[t].status = "pending"
                 => tasks'[t].status = "cancelled"
     /\ \A t \in DOMAIN tasks :
          tasks[t].status = "cancelled" => tasks'[t].status # "in_progress"]_vars

\* A goalComplete Judgement that spawned a task has been recorded while a planned task was
\* pending: both tasks are cancelled.
C12_Witness ==
  \E j \in DOMAIN judgements :
    /\ judgements[j].goalComplete
    /\ judgements[j].newTaskIds # <<>>
    /\ \A i \in DOMAIN judgements[j].newTaskIds :
         tasks[judgements[j].newTaskIds[i]].status = "cancelled"
    /\ \E t \in DOMAIN tasks : tasks[t].spawnedBy = 0 /\ tasks[t].status = "cancelled"

\* Task t has not been started and one of its dependencies ended `failed` or `cancelled`.
\* The turn in which a worker fails also runs the main loop, which cancels the dependents at
\* once, so such a task is seen `pending` or already `cancelled`.
BlockedByFailure(t) ==
  /\ t \in DOMAIN tasks
  /\ tasks[t].status \in {"pending", "cancelled"}
  /\ \E d \in tasks[t].dependencies :
       d \in DOMAIN tasks /\ tasks[d].status \in {"failed", "cancelled"}

GoalDeclared == \E j \in DOMAIN judgements : judgements[j].goalComplete

CancelledAsBlocked(t) ==
  /\ t \in DOMAIN tasks
  /\ tasks[t].status = "cancelled"
  /\ tasks[t].error = "Blocked by failed dependencies"

\* C13: in an uninterrupted run in which no judgement declares goalComplete, a pending task
\* that depends on a task that ended `failed` or `cancelled` eventually is `cancelled` with
\* error "Blocked by failed dependencies" (which makes its own dependents blocked in turn),
\* the run reaches `completed`, and the task is never started.
C13_BlockedTasksAreCancelledAndRunCompletes ==
  /\ \A t \in 1..MaxTasks :
       BlockedByFailure(t) ~> (GoalDeclared \/ (CancelledAsBlocked(t) /\ status = "completed"))
  /\ [][\A t \in DOMAIN tasks : BlockedByFailure(t) => tasks'[t].status # "in_progress"]_vars

TerminalTask == {"completed", "failed", "cancelled"}

\* C14: a task whose status is `completed`, `failed` or `cancelled` keeps it, and the only
\* task transitions are pending -> in_progress, in_progress -> completed or failed,
\* pending -> cancelled, and in_progress -> pending (pause, stop), under every interleaving
\* of worker termination, judge results, pause, stop and resume. A step is one event-loop
\* turn, in which a task is started or ended at most once.
C14_TaskTransitions ==
  [][\A t \in DOMAIN tasks :
       \/ tasks'[t].status = tasks[t].status
       \/ tasks[t].status = "pending" /\ tasks'[t].status \in {"in_progress", "cancelled"}
       \/ tasks[t].status = "in_progress" /\ tasks'[t].status \in {"completed", "failed", "pending"}]_vars

\* Task t is started by the step.
StartedNow(t) ==
  /\ tasks'[t].status = "in_progress"
  /\ (t \in DOMAIN tasks => tasks[t].status # "in_progress")

\* Task u is ready and unstarted after the step.
LeftReady(u) ==
  /\ tasks'[u].status = "pending"
  /\ \A d \in tasks'[u].dependencies : d \in DOMAIN tasks' /\ tasks'[d].status = "completed"

\* u comes before t in priority order: smaller priority number, ties by creation order.
Before(u, t) ==
  \/ tasks'[u].priority < tasks'[t].priority
  \/ tasks'[u].priority = tasks'[t].priority /\ u < t

\* C15: the scheduler starts ready tasks in priority order: no task is started by a
\* scheduling pass that leaves unstarted a ready task that comes before it (smaller priority
\* number, or the same priority and created earlier).
C15_StartsInPriorityOrder ==
  [][\A t, u \in DOMAIN tasks' : (StartedNow(t) /\ LeftReady(u)) => ~Before(u, t)]_vars

\* executePipeline invocations that were entered and have not returned.
ActivePipelines == {p \in DOMAIN pipes : pipes[p].pc # "done"}

\* C16: at most one executePipeline invocation of the run is active (entered and not yet
\* returned) at any time, for any sequence of start, pause, stop and resume calls.
C16_OneActivePipeline == Cardinality(ActivePipelines) <= 1

\* A worker's agent loop returns, or throws "Aborted" if the worker was cancelled.
WorkerSucceeds(w) ==
  /\ winst[w].alive
  /\ Becomes(OnWorkerDone(WorkerEnds(Cur, w, ~winst[w].cancelled), w))

\* The judging model answers that the goal is not complete yet and asks for no new task.
JudgeContinues(p) ==
  /\ pipes[p].judgeTask # 0
  /\ Becomes(JudgeOk(Cur, p, [goalComplete |-> FALSE, newTasks |-> <<>>]))

SomeTaskCompleted == \E t \in DOMAIN tasks : tasks[t].status = "completed"
SomeTaskUnfinished == \E t \in DOMAIN tasks : tasks[t].status \in {"pending", "in_progress"}

\* A run paused once, after some tasks completed while others are in progress or pending, and
\* then resumed; workers succeed unless cancelled and judges neither end the run nor add tasks.
NextPauseResume ==
  \/ status = "idle" /\ StartRun
  \/ ~interrupted /\ SomeTaskCompleted /\ SomeTaskUnfinished /\ PauseRun
  \/ status = "paused" /\ ResumeRun
  \/ \E p \in DOMAIN pipes : PlanReturn(p)
  \/ \E w \in DOMAIN winst : WorkerSucceeds(w)
  \/ \E p \in DOMAIN pipes : JudgeContinues(p)
  \/ \E p \in DOMAIN pipes : SleepWake(p)
  \/ \E p \in DOMAIN pipes : DrainPoll(p)

PauseResumeSpec ==
  /\ Init
  /\ [][NextPauseResume]_vars
  /\ WF_vars(status = "paused" /\ ResumeRun)
  /\ WF_vars(\E p \in DOMAIN pipes : PlanReturn(p))
  /\ WF_vars(\E w \in DOMAIN winst : WorkerSucceeds(w))
  /\ WF_vars(\E p \in DOMAIN pipes : JudgeContinues(p))
  /\ WF_vars(\E p \in DOMAIN pipes : SleepWake(p))
  /\ WF_vars(\E p \in DOMAIN pipes : DrainPoll(p))

AllTasksCompleted == \A t \in DOMAIN tasks : tasks[t].status = "completed"
CompletedRunsOf(t) ==
  {w \in DOMAIN workers : workers[w].taskId = t /\ workers[w].status = "completed"}

\* C17: a run paused after some tasks completed while others were in progress or pending,
\* then resumed, with workers that succeed unless cancelled: every task eventually is
\* `completed`, a task already `completed` is not given a worker again, and no task is
\* completed by more than one worker execution.
C17_ResumeCompletesEveryTaskOnce ==
  /\ (interrupted /\ status = "paused") ~> AllTasksCompleted
  /\ [][\A w \in DOMAIN workers' \ DOMAIN workers :
          workers'[w].taskId \in DOMAIN tasks
            => tasks[workers'[w].taskId].status # "completed"]_vars
  /\ [](\A t \in DOMAIN tasks : Cardinality(CompletedRunsOf(t)) <= 1)

\* C18: in every reachable state a task with status `completed` has a result and a set
\* startedAt (so that completedAt >= startedAt is defined), the tasks whose worker terminates
\* after a pause or stop has cleared startedAt included.
C18_CompletedHasResultAndStart ==
  \A t \in DOMAIN tasks :
    tasks[t].status = "completed" => tasks[t].result /\ tasks[t].startedAt

SpawnedTasks ==
  UNION {{judgements[j].newTaskIds[i] : i \in DOMAIN judgements[j].newTaskIds} :
           j \in DOMAIN judgements}

\* C19: in every reachable state each id in a Judgement's newTaskIds is the id of a task of
\* run.tasks whose spawnedBy is that Judgement's id, and the tasks that no Judgement spawned
\* (those of a plan) have no spawnedBy.
C19_NewTasksCarryTheirJudgement ==
  /\ \A j \in DOMAIN judgements :
       \A i \in DOMAIN judgements[j].newTaskIds :
         /\ judgements[j].newTaskIds[i] \in DOMAIN tasks
         /\ tasks[judgements[j].newTaskIds[i]].spawnedBy = judgements[j].id
  /\ \A t \in DOMAIN tasks \ SpawnedTasks : tasks[t].spawnedBy = 0

\* The second Judgement of the run spawned a task, next to a task of the plan.
C19_Witness ==
  /\ Len(judgements) >= 2
  /\ judgements[2].newTaskIds # <<>>
  /\ \E t \in DOMAIN tasks : tasks[t].spawnedBy = 0

\* C20: a stopRun call on a run that is not terminal sets status `stopped` with completedAt;
\* a stopRun call on a run that is `completed` or `failed` changes neither the run's status
\* nor its completedAt, tasks or workers.
C20_StopRunSparesTerminalRuns ==
  [][StopRun =>
       IF TerminalRun
       THEN UNCHANGED <<status, completedAt, tasks, workers>>
       ELSE status' = "stopped" /\ completedAt' # 0]_vars

\* An uninterrupted run that stopRun may be called on at any time, while time passes.
NextStop ==
  \/ NextRun
  \/ StopRun
  \/ Tick

StopSpec == Init /\ [][NextStop]_vars

\* C21: stopRun called again on a run that stopRun has stopped leaves the Run record as the
\* first call left it: same status, completedAt, tasks and workers.
C21_StopRunIsIdempotent ==
  [][(status = "stopped" /\ StopRun) => UNCHANGED <<status, completedAt, tasks, workers>>]_vars

\* The four calls made with any id in any state of the run, accepted or not; workers succeed
\* unless cancelled and judges neither end the run nor add tasks.
NextApi ==
  \/ \E id \in RequestIds : StartRunCall(id)
  \/ \E id \in RequestIds : StopRunCall(id)
  \/ \E id \in RequestIds : PauseRunCall(id)
  \/ \E id \in RequestIds : ResumeRunCall(id)
  \/ \E p \in DOMAIN pipes : PlanReturn(p)
  \/ \E p \in DOMAIN pipes : PlanFail(p)
  \/ \E w \in DOMAIN winst : WorkerSucceeds(w)
  \/ \E p \in DOMAIN pipes : JudgeContinues(p)
  \/ \E p \in DOMAIN pipes : SleepWake(p)
  \/ \E p \in DOMAIN pipes : DrainPoll(p)

ApiSpec == Init /\ [][NextApi]_vars

\* The call is one that the Run Manager must refuse.
StartRefused(id) == id # RunId \/ status \notin {"idle", "paused"}
PauseRefused(id) == id # RunId \/ status \notin {"planning", "executing", "judging"}
ResumeRefused(id) == id # RunId \/ status \notin {"paused", "stopped"}
StopRefused(id) == id # RunId

\* C22: startRun on a run not in idle or paused, pauseRun on a run not in planning,
\* executing or judging, resumeRun on a run not in paused or stopped, and any of the four
\* calls with an unknown id, throw an error and leave the Run record and the abort-handle
\* map (and everything else) as they were; nothing else throws.
C22_RefusedCallsChangeNothing ==
  [][/\ \A id \in RequestIds :
          /\ (StartRunCall(id) /\ StartRefused(id)) => thrown' # "" /\ UNCHANGED runVars
          /\ (PauseRunCall(id) /\ PauseRefused(id)) => thrown' # "" /\ UNCHANGED runVars
          /\ (ResumeRunCall(id) /\ ResumeRefused(id)) => thrown' # "" /\ UNCHANGED runVars
          /\ (StopRunCall(id) /\ StopRefused(id)) => thrown' # "" /\ UNCHANGED runVars
     /\ thrown' # thrown => UNCHANGED runVars]_vars

\* pauseRun has been refused on a run that was not active, startRun on a run that was.
C22_Witness ==
  \/ thrown = "can only pause active runs" /\ status = "completed"
  \/ thrown = "can only start idle or paused runs" /\ status = "executing"

\* maxWorkers arguments of createRun: negative, absent (0), in range, above the maximum.
CreateRunArgs == {-1, 0, 1, 2, 11}

CreateRunInit == NoFiles /\ NoEvents /\ \E arg \in CreateRunArgs : RunCreated(arg)

\* An uninterrupted run created with any of these arguments.
CreateRunSpec == CreateRunInit /\ [][NextRun]_vars

\* C23: whatever maxWorkers argument createRun got, the Run's maxWorkers is at least 1 and at
\* most MAX_CONCURRENT_WORKERS, so that the run can start a ready task.
C23_MaxWorkersWithinRange == 1 <= maxWorkers /\ maxWorkers <= MAX_CONCURRENT_WORKERS

\* ---- persistence (saveRun, loadState) ----

LOG_KEEP == 100
InFlight == {"planning", "executing", "judging"}
RunStatuses == {"idle", "planning", "executing", "judging", "completed", "failed", "stopped", "paused"}
TaskStatuses == {"pending", "in_progress", "completed", "failed", "cancelled"}
WorkerStatuses == {"running", "completed", "failed"}

\* Mutant of SliceLast: the first n elements are kept (slice(0, n)).
SliceFirst(a, n) == IF Len(a) <= n THEN a ELSE SubSeq(a, 1, n)

\* Array.prototype.slice(-n): the last n elements, all of them if there are fewer; -0 is 0,
\* so slice(-0) is slice(0), the whole array.
SliceLast(a, n) == IF n = 0 \/ Len(a) <= n THEN a ELSE SubSeq(a, Len(a) - n + 1, Len(a))

\* JSON.stringify of an object: a key whose value is undefined (0 for a timestamp) is left
\* out of the text; the text is the function from the keys written to their values.
Stringify(obj, optional) ==
  [k \in {x \in DOMAIN obj : ~(x \in optional /\ obj[x] = 0)} |-> obj[k]]

\* Reading a key of a parsed object: undefined (0 for a timestamp) when the text lacks it.
Get(json, k) == IF k \in DOMAIN json THEN json[k] ELSE 0

\* saveRun: { ...run, workers: run.workers.map(w => ({ ...w, logs: w.logs.slice(-100),
\* activity: w.activity.slice(-100) })) } written as JSON.
saveRun(run) ==
  Stringify(
    [status |-> run.status,
     completedAt |-> run.completedAt,
     tasks |-> [i \in DOMAIN run.tasks |-> Stringify(run.tasks[i], {"startedAt"})],
     workers |-> [i \in DOMAIN run.workers |->
                    Stringify([run.workers[i] EXCEPT !.logs = SliceLast(@, LOG_KEEP),
                                                     !.activity = SliceLast(@, LOG_KEEP)],
                              {"completedAt"})]],
    {"completedAt"})

\* JSON.parse of a file in the current format (it has a `tasks` key).
ParseRun(json) ==
  [status |-> json.status,
   completedAt |-> Get(json, "completedAt"),
   tasks |-> [i \in DOMAIN json.tasks |->
                [status |-> json.tasks[i].status, startedAt |-> Get(json.tasks[i], "startedAt")]],
   workers |-> [i \in DOMAIN json.workers |->
                  [status |-> json.workers[i].status,
                   completedAt |-> Get(json.workers[i], "completedAt"),
                   logs |-> json.workers[i].logs,
                   activity |-> json.workers[i].activity]]]

\* Mutant of Reconcile: the tasks are loaded as stored.
ReconcileRunAndWorkers(run, t) ==
  [run EXCEPT
     !.status = IF @ \in InFlight THEN "paused" ELSE @,
     !.workers = [i \in DOMAIN run.workers |->
                    IF run.workers[i].status = "running"
                    THEN [run.workers[i] EXCEPT !.status = "failed", !.completedAt = t]
                    ELSE run.workers[i]]]

\* The reconciliation of loadState, made at time t.
Reconcile(run, t) ==
  [run EXCEPT
     !.status = IF @ \in InFlight THEN "paused" ELSE @,
     !.workers = [i \in DOMAIN run.workers |->
                    IF run.workers[i].status = "running"
                    THEN [run.workers[i] EXCEPT !.status = "failed", !.completedAt = t]
                    ELSE run.workers[i]],
     !.tasks = [i \in DOMAIN run.tasks |->
                  IF run.tasks[i].status = "in_progress"
                  THEN [run.tasks[i] EXCEPT !.status = "pending", !.startedAt = 0]
                  ELSE run.tasks[i]]]

\* loadState: every file is parsed, reconciled and put in `runs`.
loadState(files, t) == [i \in DOMAIN files |-> Reconcile(ParseRun(files[i]), t)]

\* The n first entries of a log; an entry is modelled by its rank.
LogOf(n) == [i \in 1..n |-> i]

LogLengths == {0, LOG_KEEP - 1, LOG_KEEP, LOG_KEEP + 1}
Stamps == {0, 1}

\* Runs as `runs` may hold them, with at most one task and one worker.
MemTasks ==
  {<<>>} \cup {<<[status |-> st, startedAt |-> a]>> : st \in TaskStatuses, a \in Stamps}
MemWorkers ==
  {<<>>} \cup
  {<<[status |-> x[1], completedAt |-> x[2], logs |-> LogOf(x[3]), activity |-> LogOf(x[4])]>> :
     x \in WorkerStatuses \X Stamps \X LogLengths \X {0, LOG_KEEP + 1}}
MemRuns ==
  [status : RunStatuses, completedAt : Stamps, tasks : MemTasks, workers : MemWorkers]

\* The rank of the last entry of a log, 0 for an empty log.
LastRank(log) == IF log = <<>> THEN 0 ELSE log[Len(log)]

\* addLog: a worker of the run writes its next log entry (followed around the limit of
\* saveRun only, far below the 500 entries that addLog keeps in memory).
AddLog ==
  /\ memRun.workers # <<>>
  /\ LastRank(memRun.workers[1].logs) >= LOG_KEEP - 1
  /\ LastRank(memRun.workers[1].logs) <= LOG_KEEP + 1
  /\ memRun' = [memRun EXCEPT !.workers[1].logs = Append(@, LastRank(@) + 1)]
  /\ UNCHANGED <<runVars, thrown, busVars, queryVars, savedFiles, loadedRuns, savedRun>>

\* saveState: the run is written to its file (there is one file per run id).
SaveRun ==
  /\ savedFiles' = <<saveRun(memRun)>>
  /\ savedRun' = <<memRun>>
  /\ UNCHANGED <<runVars, thrown, busVars, queryVars, memRun, loadedRuns>>

\* The server starts: loadState fills `runs` from the files.
LoadState ==
  /\ savedFiles # <<>>
  /\ loadedRuns' = loadState(savedFiles, now)
  /\ memRun' = loadedRuns'[1]
  /\ UNCHANGED <<runVars, thrown, busVars, queryVars, savedFiles, savedRun>>

NextPersist == AddLog \/ SaveRun \/ LoadState

\* Any run in memory, no file yet.
PersistInit ==
  /\ RunCreated(0)
  /\ NoEvents
  /\ memRun \in MemRuns
  /\ savedFiles = <<>>
  /\ loadedRuns = <<>>
  /\ savedRun = <<>>

PersistSpec == PersistInit /\ [][NextPersist]_vars

\* C24: after loadState, for every record loaded: the run is not planning, executing or
\* judging (such a run is paused), no worker is running (such a worker is failed, with
\* completedAt set), no task is in_progress (such a task is pending, startedAt cleared), and
\* every other status is as the file had it.
C24_LoadStateReconciles ==
  [][LoadState =>
       \A i \in DOMAIN loadedRuns' :
         LET r == loadedRuns'[i]
             f == savedFiles[i]
         IN /\ r.status \notin InFlight
            /\ r.status = IF f.status \in InFlight THEN "paused" ELSE f.status
            /\ DOMAIN r.workers = DOMAIN f.workers
            /\ \A w \in DOMAIN r.workers :
                 /\ r.workers[w].status # "running"
                 /\ IF f.workers[w].status = "running"
                    THEN r.workers[w].status = "failed" /\ r.workers[w].completedAt # 0
                    ELSE r.workers[w].status = f.workers[w].status
            /\ DOMAIN r.tasks = DOMAIN f.tasks
            /\ \A t \in DOMAIN r.tasks :
                 /\ r.tasks[t].status # "in_progress"
                 /\ IF f.tasks[t].status = "in_progress"
                    THEN r.tasks[t].status = "pending" /\ r.tasks[t].startedAt = 0
                    ELSE r.tasks[t].status = f.tasks[t].status]_vars

\* A file of an executing run with a running worker and a task in progress has been loaded.
C24_Witness ==
  /\ loadedRuns # <<>>
  /\ savedFiles[1].status = "executing" /\ loadedRuns[1].status = "paused"
  /\ savedFiles[1].workers # <<>> /\ savedFiles[1].workers[1].status = "running"
  /\ loadedRuns[1].workers[1].status = "failed"
  /\ savedFiles[1].tasks # <<>> /\ savedFiles[1].tasks[1].status = "in_progress"
  /\ loadedRuns[1].tasks[1].status = "pending"

\* The last LOG_KEEP entries of a log.
Kept(log) ==
  LET n == Min(Len(log), LOG_KEEP)
  IN [i \in 1..n |-> log[Len(log) - n + i]]

\* What a restart makes of run m at time t, as the claim has it.
AfterRestart(m, t) ==
  [status |-> IF m.status \in InFlight THEN "paused" ELSE m.status,
   completedAt |-> m.completedAt,
   tasks |-> [i \in DOMAIN m.tasks |->
                IF m.tasks[i].status = "in_progress"
                THEN [status |-> "pending", startedAt |-> 0]
                ELSE m.tasks[i]],
   workers |-> [i \in DOMAIN m.workers |->
                  [status |-> IF m.workers[i].status = "running" THEN "failed"
                              ELSE m.workers[i].status,
                   completedAt |-> IF m.workers[i].status = "running" THEN t
                                   ELSE m.workers[i].completedAt,
                   logs |-> Kept(m.workers[i].logs),
                   activity |-> Kept(m.workers[i].activity)]]]

\* C25: saveRun followed by loadState yields a record equal to the saved one, except that
\* each worker's logs and activity keep their last 100 entries only and that the restart
\* reconciliation has been applied.
C25_SaveThenLoad ==
  [][LoadState => loadedRuns' = <<AfterRestart(savedRun[1], now)>>]_vars

\* A run whose worker had more than 100 log entries and no completedAt has been saved and
\* loaded: the worker has its last 100 entries.
C25_Witness ==
  /\ loadedRuns # <<>> /\ savedRun # <<>>
  /\ savedRun[1].workers # <<>>
  /\ Len(savedRun[1].workers[1].logs) > LOG_KEEP
  /\ savedRun[1].workers[1].completedAt = 0 /\ savedRun[1].workers[1].status = "completed"
  /\ loadedRuns[1].workers # <<>>
  /\ Len(loadedRuns[1].workers[1].logs) = LOG_KEEP
  /\ loadedRuns[1].workers[1].logs[LOG_KEEP] = LastRank(savedRun[1].workers[1].logs)

\* C26: in a run that is neither paused nor stopped, a failing plan call ends the run with
\* status `failed`, its error set, no task, the run:failed event emitted and no worker; the
\* run stays so.
C26_PlanFailureFailsRun ==
  /\ [][(\E p \in DOMAIN pipes : PlanFail(p)) => status' = "failed"]_vars
  /\ [](status = "failed" =>
          /\ error
          /\ tasks = <<>>
          /\ workers = <<>>
          /\ "run:failed" \in lifecycle)
  /\ [][status = "failed" => status' = "failed"]_vars

\* The plan call of a started run has failed.
C26_Witness ==
  /\ status = "failed"
  /\ pipes # <<>> /\ pipes[1].pc = "done"
  /\ lifecycle = {"run:failed"}

C28_DependenciesAreTasksOfTheRun ==
  \A t \in DOMAIN tasks : tasks[t].dependencies \subseteq DOMAIN tasks

\* The plan whose task "b" named "A" and the unknown "z", and a judge's task that named "a"
\* and "z": both depend on task 1 alone.
C28_Witness ==
  /\ Len(tasks) = 3
  /\ tasks[2].spawnedBy = 0 /\ tasks[2].dependencies = {1}
  /\ tasks[3].spawnedBy # 0 /\ tasks[3].dependencies = {1}

\* ---- event bus (events.ts) and the SSE route (GET /api/events) ----

EVENT_LOG_MAX == 1000
CATCH_UP == 50

\* The `connected` frame the route writes after the catch-up; it is no emitted event.
Connected == 0

\* Mutant of PushEvent: at the limit the oldest events are kept (slice(0, 1000)).
PushEventKeepsOldest(log, e) ==
  LET l == Append(log, e)
  IN IF Len(l) > EVENT_LOG_MAX THEN SubSeq(l, 1, EVENT_LOG_MAX) ELSE l

\* emit: this.eventLog.push(event); beyond 1000 entries, this.eventLog.slice(-1000).
PushEvent(log, e) ==
  LET l == Append(log, e)
  IN IF Len(l) > EVENT_LOG_MAX THEN SliceLast(l, EVENT_LOG_MAX) ELSE l

\* emit: the payload is written to the response of every client of the list.
WriteAll(rcv, cs, payload) ==
  [c \in DOMAIN rcv |-> IF c \in cs THEN Append(rcv[c], payload) ELSE rcv[c]]

\* Mutant of getRecentEvents: the first `limit` events of the log (slice(0, limit)).
getRecentEventsOldest(log, limit) == SubSeq(log, 1, Min(limit, Len(log)))

\* getRecentEvents(limit): this.eventLog.slice(-limit).
getRecentEvents(log, limit) == SliceLast(log, limit)

\* eventBus.emit(type, data), called by the orchestrator, the workers and the model adapter.
Emit ==
  /\ emitted' = emitted + 1
  /\ eventLog' = PushEvent(eventLog, emitted')
  /\ received' = WriteAll(received, clients, emitted')
  /\ UNCHANGED <<runVars, thrown, persistVars, queryVars, clients, regAt>>

\* GET /api/events, one synchronous handler: addClient under a fresh id, the catch-up of the
\* 50 most recent events, then the `connected` frame.
Subscribe ==
  /\ Len(received) < MaxClients
  /\ clients' = clients \cup {Len(received) + 1}
  /\ received' = Append(received, getRecentEvents(eventLog, CATCH_UP) \o <<Connected>>)
  /\ regAt' = Append(regAt, emitted)
  /\ UNCHANGED <<runVars, thrown, persistVars, queryVars, eventLog, emitted>>

\* res.on("close"): the client leaves the list.
Close(c) ==
  /\ c \in clients
  /\ clients' = clients \ {c}
  /\ UNCHANGED <<runVars, thrown, persistVars, queryVars, eventLog, received, emitted, regAt>>

\* The numbers of events emitted before the first observed step: around the catch-up size
\* and around the limit of the log.
LogSizes == {0, 1, CATCH_UP - 1, CATCH_UP, CATCH_UP + 1, EVENT_LOG_MAX - 1, EVENT_LOG_MAX}

\* A bus that has emitted n0 events, no more than the log holds, and has no client yet.
EventInit ==
  /\ RunCreated(0)
  /\ NoFiles
  /\ \E n0 \in LogSizes :
       /\ emitted = n0
       /\ eventLog = [i \in 1..n0 |-> i]
  /\ clients = {}
  /\ received = <<>>
  /\ regAt = <<>>
  /\ recent = <<>>
  /\ limitAsked = -1

\* At most MaxEmits emissions are followed from any of the initial sizes.
MayEmit == \E n0 \in LogSizes : n0 <= emitted /\ emitted < n0 + MaxEmits

NextEvent ==
  \/ MayEmit /\ Emit
  \/ Subscribe
  \/ \E c \in clients : Close(c)

EventSpec == EventInit /\ [][NextEvent]_vars

\* The events of ranks a+1 .. b, in emission order.
Emissions(a, b) == [i \in 1..(b - a) |-> a + i]

\* C29: a registered subscriber has been written, in this order: the last min(50, n) of the
\* n events emitted before its registration, in emission order; the `connected` frame; then
\* every event emitted since, once each, in emission order.
C29_CatchUpThenLive ==
  \A c \in clients :
    received[c] = Emissions(regAt[c] - Min(CATCH_UP, regAt[c]), regAt[c])
                    \o <<Connected>> \o Emissions(regAt[c], emitted)

\* A subscriber that registered after more than 50 events and has received live events.
C29_Witness ==
  \E c \in clients :
    /\ regAt[c] > CATCH_UP
    /\ emitted >= regAt[c] + 2
    /\ Len(received[c]) = CATCH_UP + 1 + (emitted - regAt[c])

\* C30: the log never holds more than 1000 events, and holds exactly the most recently
\* emitted ones in emission order; every emit is written to each client registered then.
C30_EventLogIsRecentWindow ==
  /\ [](/\ Len(eventLog) <= EVENT_LOG_MAX
        /\ eventLog = Emissions(emitted - Min(EVENT_LOG_MAX, emitted), emitted))
  /\ [][Emit => \A c \in clients : received'[c] = Append(received[c], emitted')]_vars

\* More than 1000 events were emitted, the oldest are gone, and a registered subscriber was
\* written the latest.
C30_Witness ==
  /\ emitted > EVENT_LOG_MAX
  /\ Len(eventLog) = EVENT_LOG_MAX
  /\ eventLog[1] = emitted - EVENT_LOG_MAX + 1
  /\ \E c \in clients : received[c][Len(received[c])] = emitted

\* C31: whenever the run is `completed`, no task is pending or in_progress, no worker is
\* running, no judge call is in flight, and no finished task waits in a judge queue.
C31_CompletedRunIsQuiescent ==
  status = "completed" =>
    /\ \A t \in DOMAIN tasks : tasks[t].status \notin {"pending", "in_progress"}
    /\ \A w \in DOMAIN workers : workers[w].status # "running"
    /\ \A p \in DOMAIN pipes : pipes[p].judgeTask = 0 /\ pipes[p].judgeQueue = <<>>

\* C32: resuming a paused or stopped run whose task list is non-empty does not invoke the
\* planner: the run does not enter `planning`, no pipeline waits for a plan.
C32_PlannerOnlyOnFirstStart ==
  [][(tasks # <<>> /\ ResumeRun) =>
       /\ status' # "planning"
       /\ pipes'[Len(pipes')].pc # "planning"]_vars

\* C33: when a worker that was cancelled (killWorker fired its abort controller while it
\* was running) terminates, its status becomes `failed` and it does not make its task
\* `completed`.
C33_CancelledWorkerEndsFailed ==
  [][\A w \in DOMAIN workers :
       (winst[w].cancelled /\ WorkerDone(w)) =>
         /\ workers'[w].status = "failed"
         /\ (tasks'[workers[w].taskId].status = "completed"
               => tasks[workers[w].taskId].status = "completed")]_vars

\* C34: at the moment a Judgement with taskId t is appended, t is `completed` or `failed`
\* and no worker of t is `running`.
C34_JudgedAfterWorkerTerminated ==
  [][Len(judgements') > Len(judgements) =>
       LET t == judgements'[Len(judgements')].taskId
       IN /\ tasks[t].status \in {"completed", "failed"}
          /\ \A w \in DOMAIN workers : workers[w].taskId = t => workers[w].status # "running"]_vars

\* C35: the status is `judging` only while a judge call of the run is in flight. The end of
\* an iteration leaves `judging` only if the loop has begun its next iteration, and it does
\* not turn a status that became paused, stopped or completed during the call into
\* `executing`, nor into `judging` other than by that next iteration.
C35_JudgingOnlyWhileJudgeCall ==
  /\ [](status = "judging" => \E p \in DOMAIN pipes : pipes[p].judgeTask # 0)
  /\ [][\A p \in DOMAIN pipes :
          (JudgeReturn(p) \/ JudgeFail(p)) =>
            /\ (status' = "judging" =>
                  /\ pipes[p].judgeQueue # <<>>
                  /\ pipes'[p].judgeTask = Head(pipes[p].judgeQueue))
            /\ (status \in {"paused", "stopped", "completed"} => status' # "executing")]_vars

\* The run was paused while a judge call is in flight, and the end of that iteration,
\* whether the call succeeds or fails, leaves it paused.
C35_Witness ==
  /\ status = "paused"
  /\ \E p \in DOMAIN pipes :
       /\ pipes[p].judgeTask # 0
       /\ JudgeErr(Cur, p).status = "paused"
       /\ \E res \in JudgeChoices : ~res.goalComplete /\ JudgeOk(Cur, p, res).status = "paused"

\* The executePipeline invocations that have not returned.
ActivePipes == {p \in DOMAIN pipes : pipes[p].pc # "done"}

\* C36: while an executePipeline invocation is active, runAborts holds the controller of
\* the invocation started last; pauseRun and stopRun on such a run abort every active
\* invocation, and no worker is spawned while the run is paused or stopped.
C36_AbortHandleIsTheActivePipeline ==
  /\ [](ActivePipes # {} => runAborts \in ActivePipes /\ \A p \in ActivePipes : p <= runAborts)
  /\ [][(PauseRun \/ StopRun) => \A p \in ActivePipes : pipes'[p].aborted]_vars
  /\ [][(status \in {"paused", "stopped"} /\ status' = status)
          => Len(workers') = Len(workers)]_vars

\* ---- a judge result with several new tasks ----

\* Answers of the judging model that add two tasks, "c" depending on its sibling "d", in
\* either order.
SiblingChoices ==
  [goalComplete : {FALSE},
   newTasks : { <<[title |-> "d", priority |-> 0, dependencies |-> {}],
                  [title |-> "c", priority |-> 0, dependencies |-> {"D"}]>>,
                <<[title |-> "c", priority |-> 0, dependencies |-> {"D"}],
                  [title |-> "d", priority |-> 0, dependencies |-> {}]>> }]

\* The judging model answers with two new tasks.
JudgeReturnsSiblings(p) ==
  /\ pipes[p].judgeTask # 0
  /\ \E res \in SiblingChoices : Becomes(JudgeOk(Cur, p, res))

NextSiblings ==
  \/ NextRun
  \/ \E p \in DOMAIN pipes : JudgeReturnsSiblings(p)

\* An uninterrupted run whose judge may add two tasks at once.
SiblingSpec == Init /\ [][NextSiblings]_vars

\* The tasks u that the same Judgement added as task t and that t named as a dependency.
NamedSiblings(t) ==
  {u \in DOMAIN tasks : /\ tasks[t].spawnedBy # 0
                        /\ tasks[u].spawnedBy = tasks[t].spawnedBy
                        /\ tasks[t].title = "c" /\ tasks[u].title = "d"}

\* C37: a task added by a judge result depends on the sibling it named, whatever the order
\* of the two in the result, and is not started before that sibling is completed.
C37_SiblingDependenciesResolve ==
  /\ [](\A t \in DOMAIN tasks : NamedSiblings(t) \subseteq tasks[t].dependencies)
  /\ [][\A t \in DOMAIN tasks :
          (tasks[t].status = "pending" /\ tasks'[t].status = "in_progress") =>
            \A u \in NamedSiblings(t) : tasks'[u].status = "completed"]_vars

\* C38: the activeWorkers table holds exactly the workers whose status is `running`.
C38_ActiveWorkersAreTheRunningOnes ==
  activeWorkers = {w \in DOMAIN workers : workers[w].status = "running"}

\* ---- getRecentEvents as a function of its limit ----

\* The limits asked for: none of the log, a few events, the catch-up size, more than the
\* log can hold.
Limits == {0, 1, 2, CATCH_UP, EVENT_LOG_MAX + 1}

\* A call eventBus.getRecentEvents(limit).
GetRecent(limit) ==
  /\ recent' = getRecentEvents(eventLog, limit)
  /\ limitAsked' = limit
  /\ UNCHANGED <<runVars, thrown, persistVars, busVars>>

NextRecent ==
  \/ MayEmit /\ Emit
  \/ \E limit \in Limits : GetRecent(limit)

RecentSpec == EventInit /\ [][NextRecent]_vars

\* C39: getRecentEvents(limit) returns at most `limit` events, and they are the most
\* recently emitted ones in emission order, for every limit >= 0.
C39_RecentEventsWithinLimit ==
  [][\A limit \in Limits :
       GetRecent(limit) =>
         /\ Len(recent') <= limit
         /\ recent' = Emissions(emitted - Min(limit, Len(eventLog)), emitted)]_vars

====
